---- MODULE Spec2Model ----
(***************************************************************************)
(* DNSpector: the DNS wire codec (resolver.py), the DoH JSON extraction    *)
(* (doh_resolver.py), the persistence and change detection of DNSDatabase  *)
(* (db.py) and the orchestration of monitor.py, as state machines.         *)
(*                                                                         *)
(*   SpecDb      log_dns_result calls against one database, with a clock   *)
(*   SpecDecode  parse_dns_response, statement by statement, and           *)
(*               _parse_doh_response, over bounded sets of inputs          *)
(*   SpecEncode  build_dns_query, and parse_dns_response over its packet   *)
(*   SpecPointer parse_dns_response over answers named by pointers         *)
(*   SpecTerminate  parse_dns_response as a running call, with fairness    *)
(*   SpecMonitor resolve_and_log over the three targets of RESOLVERS, and  *)
(*               compare_doh_resolvers over the UDP and DoH targets        *)
(*   SpecKeys    log_dns_result for several (domain, resolver) pairs       *)
(*   SpecConcurrent  two callers of log_dns_result sharing the database    *)
(*   SpecSweep   the while loop of monitor_domains                         *)
(*   SpecRegistry  resolve_with_resolver with names in and out of the      *)
(*               registry                                                  *)
(*                                                                         *)
(* An Optional value of the Python code is the empty set (None) or a       *)
(* singleton (the value).  Python offsets are kept 0-based.                *)
(***************************************************************************)
EXTENDS Integers, Sequences, FiniteSets, TLC

VARIABLES
    dns_logs,   \* table dns_logs, in rowid order
    ip_alerts,  \* table ip_alerts, in rowid order
    now,        \* CURRENT_TIMESTAMP of the database, in whole seconds
    data,       \* parse_dns_response: the bytes being parsed
    offset,     \* parse_dns_response: the cursor
    qleft,      \* parse_dns_response: question entries still to skip
    aleft,      \* parse_dns_response: answer entries still to read
    dpc,        \* parse_dns_response: position in the function
    ip,         \* parse_dns_response: local ip
    ttl,        \* parse_dns_response: local ttl
    status,     \* parse_dns_response: local status
    oob,        \* parse_dns_response: whether a read reached past len(data)
    doh_in,     \* _parse_doh_response: response_data
    doh_out,    \* _parse_doh_response: the returned triple, once returned
    domain,     \* build_dns_query: the argument
    packet,     \* build_dns_query: the returned bytes, once returned
    epc,        \* build_dns_query: position ("idle", "built", "raised")
    results,    \* resolve_and_log: the dict results
    outcomes,   \* resolve_and_log: what each target's attempt met, by target
    idx,        \* resolve_and_log: index of the next target of the for loop
    mpc,        \* position in resolve_and_log ("loop", "returned") or in
                \* compare_doh_resolvers ("compare", "compare_returned",
                \* "compare_raised"); "idle" before either is called
    mdomain,    \* resolve_and_log: the argument
    cpc,        \* concurrent callers of log_dns_result: position of each
    cargs,      \* concurrent callers: the arguments of the running call
    clast,      \* concurrent callers: the local last_ip of _check_ip_change
    domains,    \* monitor_domains: the argument domains
    interval,   \* monitor_domains: the argument interval, in seconds
    spc,        \* monitor_domains: position ("idle", "for", "resolving",
                \* "sleeping", "raised")
    sweep,      \* monitor_domains: number of the pass of the while loop
    di,         \* monitor_domains: index of the for loop in domains
    att,        \* resolver attempts finished by the running resolve_and_log
    sclock,     \* wall clock of the monitoring process, in seconds
    rstart,     \* time at which the running resolve_and_log was called
    trace,      \* history: one record per finished pass of the for loop
    rpc,        \* resolve_with_resolver called directly: position ("idle",
                \* "called", "returned", "raised")
    rname,      \* resolve_with_resolver: the argument resolver_name
    rdomain,    \* resolve_with_resolver: the argument domain
    rout,       \* resolve_with_resolver: how the last call ended
    radapters   \* adapters the last call invoked

dbVars == <<dns_logs, ip_alerts, now>>
decVars == <<data, offset, qleft, aleft, dpc, ip, ttl, status, oob>>
dohVars == <<doh_in, doh_out>>
encVars == <<domain, packet, epc>>
monVars == <<results, outcomes, idx, mpc, mdomain>>
conVars == <<cpc, cargs, clast>>
swpVars == <<domains, interval, spc, sweep, di, att, sclock, rstart, trace>>
regVars == <<rpc, rname, rdomain, rout, radapters>>
vars == <<dbVars, decVars, dohVars, encVars, monVars, conVars, swpVars, regVars>>

----------------------------------------------------------------------------
(* Optional[...] and Python truthiness *)

None == {}
Some(v) == {v}
Val(o) == CHOOSE v \in o : TRUE
\* `if ip` for an Optional[str]: neither None nor the empty string
Truthy(o) == o # None /\ o # Some("")

Last(s) == s[Len(s)]

----------------------------------------------------------------------------
(* db.py: DNSDatabase *)

\* bounds of the database model
MaxLogs == 3
MaxTime == 1

\* a lookup whose WHERE clause leaves out the key
WithIpAnyKey(logs, d, r) ==
    {i \in 1..Len(logs) : logs[i].ip # None}

\* get_last_ip: the ip of a newest row of (d, r) whose ip is not NULL.  The
\* column timestamp has a resolution of one second and ORDER BY leaves the
\* order of rows with equal timestamps open, so every such row may be the one
\* LIMIT 1 keeps: the operator gives the set of values the call may return.
WithIp(logs, d, r) ==
    {i \in 1..Len(logs) :
        logs[i].domain = d /\ logs[i].resolver = r /\ logs[i].ip # None}

get_last_ip(logs, d, r) ==
    IF WithIp(logs, d, r) = {} THEN {None}
    ELSE {logs[i].ip : i \in {k \in WithIp(logs, d, r) :
            \A j \in WithIp(logs, d, r) : logs[j].timestamp <= logs[k].timestamp}}

\* the INSERT of log_dns_result (timestamp defaults to CURRENT_TIMESTAMP)
InsertLog(logs, d, r, i, t, s, l, ts) ==
    Append(logs, [domain |-> d, resolver |-> r, ip |-> i, ttl |-> t,
                  status |-> s, latency_ms |-> l, timestamp |-> ts])

\* log_ip_alert
log_ip_alert(alerts, d, r, old, new, reason, ts) ==
    Append(alerts, [domain |-> d, resolver |-> r, old_ip |-> old,
                    new_ip |-> new, reason |-> reason, timestamp |-> ts])

\* _check_ip_change, given the value last_ip that get_last_ip returned
check_ip_change(alerts, d, r, new_ip, last_ip, ts) ==
    IF Truthy(last_ip) /\ last_ip # new_ip
    THEN log_ip_alert(alerts, d, r, last_ip, new_ip, "IP_CHANGED", ts)
    ELSE alerts

\* log_dns_result: the INSERT, then the check against get_last_ip of the
\* table that already holds the new row
log_dns_result(d, r, i, t, s, l) ==
    /\ dns_logs' = InsertLog(dns_logs, d, r, i, t, s, l, now)
    /\ IF Truthy(i) /\ s = "NOERROR"
       THEN \E last \in get_last_ip(dns_logs', d, r) :
                ip_alerts' = check_ip_change(ip_alerts, d, r, i, last, now)
       ELSE ip_alerts' = ip_alerts

\* the clock of the database advances by one second
Tick ==
    /\ now < MaxTime
    /\ now' = now + 1
    /\ UNCHANGED <<dns_logs, ip_alerts, decVars, dohVars, encVars, monVars, conVars, swpVars, regVars>>

\* the inputs of the database model: (domain, resolver) pairs and the
\* (ip, ttl, status, latency_ms) tuples a caller passes
DbDomains == {"d1", "d2"}
DbResolvers == {"google"}
DbResults == {
    <<Some("A"), Some(300), "NOERROR", 50>>,
    <<Some("B"), Some(300), "NOERROR", 45>>,
    <<None, None, "TIMEOUT", 2000>>,
    <<Some("B"), Some(60), "SERVFAIL", 30>>,
    <<None, None, "NOERROR", 30>>,
    <<Some(""), Some(60), "NOERROR", 30>> }

LogDnsResult ==
    /\ Len(dns_logs) < MaxLogs
    /\ \E d \in DbDomains, r \in DbResolvers, x \in DbResults :
           log_dns_result(d, r, x[1], x[2], x[3], x[4])
    /\ UNCHANGED <<now, decVars, dohVars, encVars, monVars, conVars, swpVars, regVars>>

----------------------------------------------------------------------------
(* resolver.py: bytes *)

Min(a, b) == IF a < b THEN a ELSE b

\* struct.pack('!H', n) and struct.pack('!I', n)
U16(n) == <<n \div 256, n % 256>>
U32(n) == <<n \div 16777216, (n \div 65536) % 256, (n \div 256) % 256, n % 256>>

\* data[off] for a 0-based off < len(data)
At(d, off) == d[off + 1]
\* data[a:b]: a slice is clipped to the buffer and never raises
Slice(d, a, b) == SubSeq(d, a + 1, Min(b, Len(d)))
\* the big-endian fields struct.unpack reads at a 0-based offset
Rd16(d, off) == At(d, off) * 256 + At(d, off + 1)
Rd32(d, off) == Rd16(d, off) * 65536 + Rd16(d, off + 2)

A_RECORD == 1
IN_CLASS == 1

\* RCODE.get(rcode, f'RCODE_{rcode}')
RCODE(rcode) ==
    CASE rcode = 0 -> "NOERROR"
      [] rcode = 1 -> "FORMERR"
      [] rcode = 2 -> "SERVFAIL"
      [] rcode = 3 -> "NXDOMAIN"
      [] rcode = 4 -> "NOTIMP"
      [] rcode = 5 -> "REFUSED"
      [] OTHER -> "RCODE_" \o ToString(rcode)

\* '.'.join(str(b) for b in rdata)
RECURSIVE DottedDecimal(_)
DottedDecimal(rdata) ==
    IF rdata = <<>> THEN ""
    ELSE IF Len(rdata) = 1 THEN ToString(rdata[1])
    ELSE ToString(rdata[1]) \o "." \o DottedDecimal(Tail(rdata))

\* a test for the byte 0xC0 alone
IsPointerExact(b) == b = 192

\* data[offset] & 0xC0 == 0xC0
IsPointer(b) == (b \div 64) % 4 = 3

----------------------------------------------------------------------------
(* resolver.py: parse_dns_response, one action per statement group.  dpc is
   "start", "question", "answer_name", "answer_labels", "answer_fixed",
   "return", then "done" (returned (ip, ttl, status)) or "raised" (an
   IndexError or struct.error left the function). *)

\* a label walk that follows a compression pointer to its target
NextLabelFollow(d, off) ==
    IF IsPointer(At(d, off)) /\ off + 1 < Len(d)
    THEN (At(d, off) % 64) * 256 + At(d, off + 1)
    ELSE off + 1 + At(d, off)

\* offset += 1 + data[offset]: the body of both label-walking loops
NextLabel(d, off) == off + 1 + At(d, off)

\* where the function goes once the question loop is over
AfterQuestions(an) == IF an > 0 THEN "answer_name" ELSE "return"

\* the length check, the header and the start of the question loop
ParseHeader ==
    /\ dpc = "start"
    /\ IF Len(data) < 12
       THEN /\ ip' = None /\ ttl' = None /\ status' = "INVALID_RESPONSE"
            /\ dpc' = "done"
            /\ UNCHANGED <<offset, qleft, aleft>>
       ELSE /\ status' = RCODE(Rd16(data, 2) % 16)
            /\ offset' = 12
            /\ qleft' = Rd16(data, 4)
            /\ aleft' = Rd16(data, 6)
            /\ dpc' = IF Rd16(data, 4) > 0 THEN "question"
                      ELSE AfterQuestions(Rd16(data, 6))
            /\ UNCHANGED <<ip, ttl>>
    /\ UNCHANGED <<data, oob, dbVars, dohVars, encVars, monVars, conVars, swpVars, regVars>>

\* one test of `while data[offset] != 0` in the question loop, with the body
\* or the statements after the loop
SkipQuestion ==
    /\ dpc = "question"
    /\ IF offset >= Len(data)
       THEN /\ dpc' = "raised" /\ oob' = TRUE
            /\ UNCHANGED <<offset, qleft>>
       ELSE IF At(data, offset) # 0
       THEN /\ offset' = NextLabel(data, offset)
            /\ UNCHANGED <<dpc, oob, qleft>>
       ELSE /\ offset' = offset + 1 + 4
            /\ qleft' = qleft - 1
            /\ dpc' = IF qleft - 1 > 0 THEN "question" ELSE AfterQuestions(aleft)
            /\ UNCHANGED oob
    /\ UNCHANGED <<data, aleft, ip, ttl, status, dbVars, dohVars, encVars, monVars, conVars, swpVars, regVars>>

\* the name of an answer entry: a pointer is 2 bytes, anything else is walked
ParseAnswerName ==
    /\ dpc = "answer_name"
    /\ IF offset >= Len(data)
       THEN /\ dpc' = "raised" /\ oob' = TRUE
            /\ UNCHANGED offset
       ELSE IF IsPointer(At(data, offset))
       THEN /\ offset' = offset + 2
            /\ dpc' = "answer_fixed"
            /\ UNCHANGED oob
       ELSE /\ dpc' = "answer_labels"
            /\ UNCHANGED <<offset, oob>>
    /\ UNCHANGED <<data, qleft, aleft, ip, ttl, status, dbVars, dohVars, encVars, monVars, conVars, swpVars, regVars>>

\* one test of `while data[offset] != 0` in the answer loop
WalkAnswerLabel ==
    /\ dpc = "answer_labels"
    /\ IF offset >= Len(data)
       THEN /\ dpc' = "raised" /\ oob' = TRUE
            /\ UNCHANGED offset
       ELSE IF At(data, offset) # 0
       THEN /\ offset' = NextLabel(data, offset)
            /\ UNCHANGED <<dpc, oob>>
       ELSE /\ offset' = offset + 1
            /\ dpc' = "answer_fixed"
            /\ UNCHANGED oob
    /\ UNCHANGED <<data, qleft, aleft, ip, ttl, status, dbVars, dohVars, encVars, monVars, conVars, swpVars, regVars>>

\* whether an answer entry is the one parse_dns_response returns
Qualifies(atype, aclass, rdlength) ==
    atype = A_RECORD /\ aclass = IN_CLASS /\ rdlength = 4

\* the 10 fixed bytes, the data, and the test of the entry
ParseAnswerFixed ==
    /\ dpc = "answer_fixed"
    /\ IF Len(Slice(data, offset, offset + 10)) # 10
       THEN /\ dpc' = "raised" /\ oob' = TRUE
            /\ UNCHANGED <<offset, aleft, ip, ttl>>
       ELSE LET atype == Rd16(data, offset)
                aclass == Rd16(data, offset + 2)
                attl == Rd32(data, offset + 4)
                rdlength == Rd16(data, offset + 8)
                rdata == Slice(data, offset + 10, offset + 10 + rdlength)
            IN  /\ offset' = offset + 10 + rdlength
                /\ oob' = (oob \/ Len(rdata) < rdlength)
                /\ IF Qualifies(atype, aclass, rdlength)
                   THEN /\ ip' = Some(DottedDecimal(rdata))
                        /\ ttl' = Some(attl)
                        /\ dpc' = "return"
                        /\ UNCHANGED aleft
                   ELSE /\ aleft' = aleft - 1
                        /\ dpc' = IF aleft - 1 > 0 THEN "answer_name" ELSE "return"
                        /\ UNCHANGED <<ip, ttl>>
    /\ UNCHANGED <<data, qleft, status, dbVars, dohVars, encVars, monVars, conVars, swpVars, regVars>>

\* return ip, ttl, status
ParseReturn ==
    /\ dpc = "return"
    /\ dpc' = "done"
    /\ UNCHANGED <<data, offset, qleft, aleft, ip, ttl, status, oob,
                   dbVars, dohVars, encVars, monVars, conVars, swpVars, regVars>>

----------------------------------------------------------------------------
(* idle values of the parts a specification does not use *)

DecIdle ==
    /\ data = <<>> /\ offset = 0 /\ qleft = 0 /\ aleft = 0 /\ dpc = "idle"
    /\ ip = None /\ ttl = None /\ status = "" /\ oob = FALSE
DohIdle == doh_in = None /\ doh_out = None
EncIdle == domain = <<>> /\ packet = None /\ epc = "idle"
MonIdle ==
    /\ results = <<>> /\ outcomes = <<>> /\ idx = 0 /\ mpc = "idle"
    /\ mdomain = <<>>
\* the callers that share the database
Procs == {1, 2}

NoArgs == [domain |-> "", resolver |-> "", ip |-> None, ttl |-> None,
           status |-> "", latency_ms |-> 0]

ConIdle ==
    /\ cpc = [p \in Procs |-> "idle"]
    /\ cargs = [p \in Procs |-> NoArgs]
    /\ clast = [p \in Procs |-> None]

RegIdle ==
    /\ rpc = "idle" /\ rname = "" /\ rdomain = <<>> /\ rout = None
    /\ radapters = 0

SwpIdle ==
    /\ domains = <<>> /\ interval = 0 /\ spc = "idle" /\ sweep = 0 /\ di = 0
    /\ att = 0 /\ sclock = 0 /\ rstart = 0 /\ trace = <<>>

DbEmpty == dns_logs = <<>> /\ ip_alerts = <<>> /\ now = 0

----------------------------------------------------------------------------
(* SpecDb: a caller logging results into a fresh database *)

InitDb == DbEmpty /\ DecIdle /\ DohIdle /\ EncIdle /\ MonIdle /\ ConIdle /\ SwpIdle /\ RegIdle

NextDb == LogDnsResult \/ Tick

SpecDb == InitDb /\ [][NextDb]_vars

----------------------------------------------------------------------------
(* Properties of SpecDb *)

RowsOf(logs, d, r) ==
    SelectSeq(logs, LAMBDA row : row.domain = d /\ row.resolver = r)

\* a successful result: status NOERROR carrying an address
IsSuccess(row) == row.status = "NOERROR" /\ Truthy(row.ip)

SuccessesOf(logs, d, r) ==
    SelectSeq(logs, LAMBDA row :
        row.domain = d /\ row.resolver = r /\ IsSuccess(row))

\* the step is one call of log_dns_result
IsLogCall == Len(dns_logs') = Len(dns_logs) + 1

\* C1: change detection.  When the whole history of a pair (d, r) is two
\* successful results, the first with address A and the second with address
\* B # A, ip_alerts holds exactly one alert for (d, r): old_ip A, new_ip B,
\* reason IP_CHANGED, whatever the timestamps of the two rows.
C1_ChangeDetection ==
    \A d \in DbDomains, r \in DbResolvers :
        LET rows == RowsOf(dns_logs, d, r)
            al == RowsOf(ip_alerts, d, r)
        IN  (/\ Len(rows) = 2
             /\ IsSuccess(rows[1]) /\ IsSuccess(rows[2])
             /\ rows[1].ip # rows[2].ip)
            => /\ Len(al) = 1
               /\ al[1].old_ip = rows[1].ip
               /\ al[1].new_ip = rows[2].ip
               /\ al[1].reason = "IP_CHANGED"

\* The case of C1 in which the tie order of get_last_ip plays no part: A
\* logged in one second, B in a later one, and no alert for the pair.
C1_LaterSecondMiss ==
    \E d \in DbDomains, r \in DbResolvers :
        LET rows == RowsOf(dns_logs, d, r)
        IN  /\ Len(rows) = 2
            /\ IsSuccess(rows[1]) /\ IsSuccess(rows[2])
            /\ rows[1].ip # rows[2].ip
            /\ rows[1].timestamp < rows[2].timestamp
            /\ RowsOf(ip_alerts, d, r) = <<>>

\* C2: no spurious change events.  A call of log_dns_result with a
\* successful result for (d, r) adds no alert when no successful result was
\* recorded for (d, r) before, and none when its address is the address of
\* the previous successful result for (d, r).
C2_NoSpuriousEvents ==
    [][ (IsLogCall /\ IsSuccess(Last(dns_logs'))) =>
          LET row == Last(dns_logs')
              prev == SuccessesOf(dns_logs, row.domain, row.resolver)
          IN  (prev = <<>> \/ Last(prev).ip = row.ip)
                  => ip_alerts' = ip_alerts ]_vars

\* The repeated-address case of C2: the history of a pair is A, B, B, all
\* successful, and two alerts were written.
C2_RepeatAlerted ==
    \E d \in DbDomains, r \in DbResolvers :
        LET rows == RowsOf(dns_logs, d, r)
        IN  /\ Len(rows) = 3
            /\ \A i \in 1..3 : IsSuccess(rows[i])
            /\ rows[1].ip # rows[2].ip /\ rows[2].ip = rows[3].ip
            /\ Len(RowsOf(ip_alerts, d, r)) = 2

\* C3: failed resolutions never update history and never emit events.  A
\* call of log_dns_result whose status is not NOERROR leaves what get_last_ip
\* returns for its pair as it was and adds no row to ip_alerts.
C3_FailuresLeaveHistory ==
    [][ (IsLogCall /\ Last(dns_logs').status # "NOERROR") =>
          LET row == Last(dns_logs')
          IN  /\ get_last_ip(dns_logs', row.domain, row.resolver)
                    = get_last_ip(dns_logs, row.domain, row.resolver)
              /\ ip_alerts' = ip_alerts ]_vars

\* The case of C3 again with no tie: a failed result carrying an address is
\* the only newest row of its pair, after an older successful one.
C3_FailureIsLastIp ==
    \E d \in DbDomains, r \in DbResolvers :
        LET rows == RowsOf(dns_logs, d, r)
        IN  /\ Len(rows) = 2
            /\ IsSuccess(rows[1])
            /\ rows[2].status # "NOERROR" /\ rows[2].ip # rows[1].ip
            /\ rows[1].timestamp < rows[2].timestamp
            /\ get_last_ip(dns_logs, d, r) = {rows[2].ip}

----------------------------------------------------------------------------
(* doh_resolver.py: DoHResolver._parse_doh_response.  response_data is a
   record: Status is an Optional, None for a key the dict does not hold (what
   .get returns for it); Answer is "missing" (no such key), "null" (a JSON
   null) or "list" with its items; an item is a dict (dict |-> TRUE, with its
   Optional fields) or a JSON value that is no dict. *)

\* the for loop over answers, from entry i on
RECURSIVE ScanAnswers(_, _)
ScanAnswers(answers, i) ==
    IF i > Len(answers) THEN <<None, None, "NO_ANSWER">>
    ELSE IF ~answers[i].dict
    THEN <<None, None, "PARSE_ERROR: object has no attribute 'get'">>
    ELSE IF answers[i].type = Some(1)
    THEN <<answers[i].data, answers[i].TTL, "NOERROR">>
    ELSE ScanAnswers(answers, i + 1)

parse_doh_response(response_data) ==
    IF response_data.Status # Some(0)
    THEN <<None, None,
           "DOH_ERROR_" \o (IF response_data.Status = None THEN "None"
                            ELSE ToString(Val(response_data.Status)))>>
    ELSE IF response_data.Answer.kind = "missing" THEN ScanAnswers(<<>>, 1)
    ELSE IF response_data.Answer.kind = "null"
    THEN <<None, None, "PARSE_ERROR: object is not iterable">>
    ELSE ScanAnswers(response_data.Answer.items, 1)

ParseDohResponse ==
    /\ doh_in # None /\ doh_out = None
    /\ doh_out' = Some(parse_doh_response(Val(doh_in)))
    /\ UNCHANGED <<doh_in, dbVars, decVars, encVars, monVars, conVars, swpVars, regVars>>

----------------------------------------------------------------------------
(* The inputs of SpecDecode *)

\* bounds of the decoder's inputs
MaxQuestions == 1
MaxAnswers == 2
MaxDohAnswers == 2

\* all sequences over S of length 0..n
RECURSIVE SeqsUpTo(_, _)
SeqsUpTo(S, n) ==
    IF n = 0 THEN {<<>>}
    ELSE SeqsUpTo(S, n - 1) \cup
         {Append(q, x) : q \in {p \in SeqsUpTo(S, n - 1) : Len(p) = n - 1}, x \in S}

\* the concatenation of a sequence of sequences (b''.join), by halves
RECURSIVE Concat(_)
Concat(ss) ==
    IF Len(ss) = 0 THEN <<>>
    ELSE IF Len(ss) = 1 THEN ss[1]
    ELSE Concat(SubSeq(ss, 1, Len(ss) \div 2))
            \o Concat(SubSeq(ss, (Len(ss) \div 2) + 1, Len(ss)))

Repeat(x, n) == [i \in 1..n |-> x]

\* a response header: transaction id, flags, qdcount, ancount, nscount, arcount
WireHeader(tid, flags, qd, an) ==
    U16(tid) \o U16(flags) \o U16(qd) \o U16(an) \o U16(0) \o U16(0)

\* the question "a" A IN
WireQuestion == <<1, 97, 0>> \o U16(1) \o U16(1)

WireAnswer(a) ==
    a.name \o U16(a.type) \o U16(a.class) \o U32(a.ttl) \o U16(Len(a.rdata)) \o a.rdata

\* answer entries: an A record behind a pointer to the question name, an A
\* record behind a literal name, a CNAME behind a pointer that points outside
\* the message, an A record of 3 data bytes, an A record of class CH
WireAnswers == {
    [name |-> <<192, 12>>, type |-> 1, class |-> 1, ttl |-> 60, rdata |-> <<1, 2, 3, 4>>],
    [name |-> <<1, 97, 0>>, type |-> 1, class |-> 1, ttl |-> 86400, rdata |-> <<5, 6, 7, 8>>],
    [name |-> <<255, 255>>, type |-> 5, class |-> 1, ttl |-> 30, rdata |-> <<192, 12>>],
    [name |-> <<192, 12>>, type |-> 1, class |-> 1, ttl |-> 80, rdata |-> <<9, 9, 9>>],
    [name |-> <<192, 12>>, type |-> 1, class |-> 3, ttl |-> 90, rdata |-> <<7, 7, 7, 7>>] }

\* response flags with RCODE 0 (NOERROR), 2 (SERVFAIL) and 9 (not in RCODE)
WireFlags == {33152, 33154, 33161}

\* well-formed responses: the counts of the header are those of the sections
WireMessage(f, qd, as) ==
    WireHeader(4660, f, qd, Len(as)) \o Concat(Repeat(WireQuestion, qd))
        \o Concat([i \in 1..Len(as) |-> WireAnswer(as[i])])

WireMessages ==
    {WireMessage(f, qd, as) :
        f \in WireFlags, qd \in 0..MaxQuestions, as \in SeqsUpTo(WireAnswers, MaxAnswers)}

\* the responses and every truncation of them
WireInputs == UNION {{SubSeq(m, 1, n) : n \in 0..Len(m)} : m \in WireMessages}

\* entries of a DoH Answer array
DohAnswers == {
    [dict |-> TRUE, type |-> Some(1), data |-> Some("1.2.3.4"), TTL |-> Some(60)],
    [dict |-> TRUE, type |-> Some(1), data |-> None, TTL |-> Some(70)],
    [dict |-> TRUE, type |-> Some(5), data |-> Some("a.example."), TTL |-> Some(30)],
    [dict |-> FALSE, type |-> None, data |-> None, TTL |-> None] }

DohInputs ==
    {[Status |-> st, Answer |-> an] :
        st \in {None, Some(0), Some(3)},
        an \in {[kind |-> "missing", items |-> <<>>], [kind |-> "null", items |-> <<>>]}
               \cup {[kind |-> "list", items |-> q] :
                        q \in SeqsUpTo(DohAnswers, MaxDohAnswers)}}

----------------------------------------------------------------------------
(* SpecDecode: parse_dns_response over WireInputs, _parse_doh_response over
   DohInputs *)

InitDecode ==
    /\ DbEmpty /\ EncIdle /\ MonIdle /\ ConIdle /\ SwpIdle /\ RegIdle
    /\ \/ /\ data \in WireInputs
          /\ offset = 0 /\ qleft = 0 /\ aleft = 0 /\ dpc = "start"
          /\ ip = None /\ ttl = None /\ status = "" /\ oob = FALSE
          /\ DohIdle
       \/ /\ DecIdle
          /\ doh_in \in {Some(x) : x \in DohInputs}
          /\ doh_out = None

NextDecode ==
    \/ ParseHeader
    \/ SkipQuestion
    \/ ParseAnswerName
    \/ WalkAnswerLabel
    \/ ParseAnswerFixed
    \/ ParseReturn
    \/ ParseDohResponse

SpecDecode == InitDecode /\ [][NextDecode]_vars

----------------------------------------------------------------------------
(* Properties of SpecDecode *)

\* a result triple (ip, ttl, status): the address is present exactly when the
\* status is NOERROR, and a TTL only with an address
Coupled(t) ==
    /\ (t[1] # None) <=> (t[3] = "NOERROR")
    /\ (t[2] # None) => (t[1] # None)

\* C4: status/address coupling.  Every triple parse_dns_response returns and
\* every triple _parse_doh_response returns has ip present if and only if
\* status is NOERROR, and ttl present only if ip is.
C4_StatusAddressCoupling ==
    /\ dpc = "done" => Coupled(<<ip, ttl, status>>)
    /\ doh_out # None => Coupled(Val(doh_out))

\* The wire case of C4: a response of RCODE 2 that carries an A record is
\* returned with its address.
C4_WireUncoupled ==
    /\ dpc = "done"
    /\ Len(data) >= 12
    /\ status = "SERVFAIL" /\ ip # None

\* the statuses by which the decoder reports malformed bytes
ParseFailures == {"INVALID_RESPONSE", "PARSE_ERROR"}

\* C6: bounds safety of Decode.  For an input of 12 bytes or more,
\* parse_dns_response never raises; when its walk needed a byte at or beyond
\* the end of the buffer it returns a parse-failure status and no address;
\* and an address it returns was built from 4 data bytes of the buffer.
C6_BoundsSafety ==
    Len(data) >= 12 =>
        /\ dpc # "raised"
        /\ (dpc = "done" /\ oob) => (status \in ParseFailures /\ ip = None)
        /\ (ip # None) => offset <= Len(data)

\* The silent case of C6: the function returned an address although the data
\* bytes of the record reach past the end of the buffer.
C6_AddressFromShortData ==
    /\ dpc = "done" /\ oob
    /\ ip # None
    /\ offset > Len(data)

\* the first entry of as that is a type-A, class-IN record (0: none)
FirstA(as) ==
    LET S == {i \in 1..Len(as) : as[i].type = A_RECORD /\ as[i].class = IN_CLASS}
    IN  IF S = {} THEN 0 ELSE CHOOSE i \in S : \A j \in S : i <= j

\* C7: first-match policy.  For a well-formed response whose answers hold a
\* type-A, class-IN entry, the returned address and TTL are those of the
\* first such entry; when that entry's data is not 4 bytes long, no address
\* of a later entry is returned in its place.
C7_FirstMatch ==
    dpc = "done" =>
        \A f \in WireFlags, qd \in 0..MaxQuestions,
           as \in SeqsUpTo(WireAnswers, MaxAnswers) :
            (data = WireMessage(f, qd, as) /\ FirstA(as) > 0) =>
                LET a == as[FirstA(as)]
                IN  IF Len(a.rdata) = 4
                    THEN ip = Some(DottedDecimal(a.rdata)) /\ ttl = Some(a.ttl)
                    ELSE ip = None /\ ttl = None

\* The case of C7 that does hold: the first type-A, class-IN entry has 4 data
\* bytes, stands behind an entry of another type, and is the one returned.
C7_FirstOfTwoReturned ==
    /\ dpc = "done"
    /\ \E f \in WireFlags, qd \in 0..MaxQuestions,
          as \in SeqsUpTo(WireAnswers, MaxAnswers) :
            /\ data = WireMessage(f, qd, as)
            /\ FirstA(as) = 2
            /\ Len(as[2].rdata) = 4
            /\ ip = Some(DottedDecimal(as[2].rdata)) /\ ttl = Some(as[2].ttl)

\* C8: NoAnswer status.  For a well-formed response with no type-A, class-IN
\* answer entry (ancount 0 included) the result has no address and the status
\* NO_ANSWER, whatever the RCODE of the header; and no result is NOERROR
\* without an address.
C8_NoAnswerStatus ==
    dpc = "done" =>
        /\ ~(status = "NOERROR" /\ ip = None)
        /\ \A f \in WireFlags, qd \in 0..MaxQuestions,
              as \in SeqsUpTo(WireAnswers, MaxAnswers) :
               (data = WireMessage(f, qd, as) /\ FirstA(as) = 0) =>
                   (ip = None /\ status = "NO_ANSWER")

\* The case of C8 with answers present: a well-formed NOERROR response whose
\* only answer is a CNAME is returned as NOERROR with no address.
C8_CnameOnlyIsNoError ==
    /\ dpc = "done"
    /\ \E f \in WireFlags, qd \in 0..MaxQuestions,
          as \in SeqsUpTo(WireAnswers, MaxAnswers) :
            /\ data = WireMessage(f, qd, as)
            /\ Len(as) = 1 /\ FirstA(as) = 0
            /\ status = "NOERROR" /\ ip = None

----------------------------------------------------------------------------
(* resolver.py: build_dns_query.  A str is the sequence of its code points. *)

\* name.split('.'): the parts between the separators, at least one
RECURSIVE Split(_, _)
Split(str, sep) ==
    IF \A i \in 1..Len(str) : str[i] # sep THEN <<str>>
    ELSE LET k == CHOOSE i \in 1..Len(str) :
                    str[i] = sep /\ \A j \in 1..(i - 1) : str[j] # sep
         IN  <<SubSeq(str, 1, k - 1)>> \o Split(SubSeq(str, k + 1, Len(str)), sep)

\* the UTF-8 bytes of one code point below 0x10000, and part.encode()
Utf8(c) ==
    IF c < 128 THEN <<c>>
    ELSE IF c < 2048 THEN <<192 + (c \div 64), 128 + (c % 64)>>
    ELSE <<224 + (c \div 4096), 128 + ((c \div 64) % 64), 128 + (c % 64)>>

StrEncode(part) == Concat([i \in 1..Len(part) |-> Utf8(part[i])])

\* struct.pack('B', n) raises struct.error outside 0..255
PackBRaises(n) == n < 0 \/ n > 255

\* encode_domain: the character count of each part, then its bytes
encode_domain(name) ==
    LET parts == Split(name, 46)
    IN  Concat([i \in 1..Len(parts) |-> <<Len(parts[i])>> \o StrEncode(parts[i])])
            \o <<0>>

encode_domain_raises(name) ==
    \E i \in 1..Len(Split(name, 46)) : PackBRaises(Len(Split(name, 46)[i]))

\* build_dns_query with the transaction id that random.randint gave
build_dns_query(name, transaction_id) ==
    WireHeader(transaction_id, 256, 1, 0) \o encode_domain(name)
        \o U16(A_RECORD) \o U16(IN_CLASS)

\* transaction ids random.randint(0, 0xFFFF) may give
TransactionIds == {0, 65535}

BuildDnsQuery ==
    /\ epc = "idle"
    /\ IF encode_domain_raises(domain)
       THEN epc' = "raised" /\ packet' = None
       ELSE \E tid \in TransactionIds :
               /\ packet' = Some(build_dns_query(domain, tid))
               /\ epc' = "built"
    /\ UNCHANGED <<domain, dbVars, decVars, dohVars, monVars, conVars, swpVars, regVars>>

\* parse_dns_response is called on the packet build_dns_query returned
ParseQuery ==
    /\ epc = "built" /\ dpc = "idle"
    /\ data' = Val(packet)
    /\ dpc' = "start"
    /\ UNCHANGED <<offset, qleft, aleft, ip, ttl, status, oob,
                   dbVars, dohVars, encVars, monVars, conVars, swpVars, regVars>>

----------------------------------------------------------------------------
(* SpecEncode: build_dns_query over EncodeInputs, then the question walk of
   parse_dns_response over the packet *)

\* bound of the enumerated domains
MaxDomainLen == 3

\* 'a', 'b', '.', and U+00E9, whose UTF-8 form has two bytes
EncodeChars == {97, 98, 46, 233}

\* every domain of up to MaxDomainLen characters, and domains at the limits
\* of a length byte, of a label and of a name
EncodeInputs ==
    SeqsUpTo(EncodeChars, MaxDomainLen) \cup {
        Repeat(97, 63),
        Repeat(97, 64),
        Repeat(97, 64) \o <<46, 98>>,
        Repeat(97, 255),
        Repeat(97, 256),
        Repeat(233, 32),
        Repeat(97, 63) \o <<46>> \o Repeat(97, 63) \o <<46>> \o Repeat(97, 63)
            \o <<46>> \o Repeat(97, 61),
        Repeat(97, 63) \o <<46>> \o Repeat(97, 63) \o <<46>> \o Repeat(97, 63)
            \o <<46>> \o Repeat(97, 63) }

InitEncode ==
    /\ DbEmpty /\ DecIdle /\ DohIdle /\ MonIdle /\ ConIdle /\ SwpIdle /\ RegIdle
    /\ domain \in EncodeInputs
    /\ packet = None /\ epc = "idle"

NextEncode ==
    \/ BuildDnsQuery
    \/ ParseQuery
    \/ ParseHeader
    \/ SkipQuestion
    \/ ParseReturn

SpecEncode == InitEncode /\ [][NextEncode]_vars

----------------------------------------------------------------------------
(* Properties of SpecEncode *)

\* the labels of a domain, each as its bytes
LabelBytes(name) ==
    [i \in 1..Len(Split(name, 46)) |-> StrEncode(Split(name, 46)[i])]

\* the length of the name in wire form: a length byte and the bytes of each
\* label, and the closing zero byte
EncodedNameLen(name) == Len(LabelBytes(name)) + Len(Concat(LabelBytes(name))) + 1

\* a label of more than 63 bytes, or a name of more than 255 bytes
Oversized(name) ==
    \/ \E i \in 1..Len(LabelBytes(name)) : Len(LabelBytes(name)[i]) > 63
    \/ EncodedNameLen(name) > 255

\* the name in wire form: every label behind the count of its bytes
WireName(name) ==
    Concat([i \in 1..Len(LabelBytes(name)) |->
                <<Len(LabelBytes(name)[i])>> \o LabelBytes(name)[i]]) \o <<0>>

\* C9: encode validation.  build_dns_query fails, with no packet, for every
\* domain with a label of more than 63 bytes or an encoded name of more than
\* 255 bytes; for every other domain it returns a header (flags 0x0100,
\* qdcount 1, the other counts 0), the length-prefixed labels, a zero byte,
\* type 1 and class 1.
C9_EncodeValidation ==
    epc # "idle" =>
        IF Oversized(domain)
        THEN epc = "raised" /\ packet = None
        ELSE /\ epc = "built"
             /\ SubSeq(Val(packet), 3, Len(Val(packet)))
                    = U16(256) \o U16(1) \o U16(0) \o U16(0) \o U16(0)
                        \o WireName(domain) \o U16(1) \o U16(1)

\* The case of C9 with a label of 64 bytes: a packet was returned, and the
\* length byte of its first label is 64.
C9_OverlongLabelPacked ==
    /\ epc = "built"
    /\ Len(LabelBytes(domain)[1]) = 64
    /\ At(Val(packet), 12) = 64

\* the name at a 0-based offset, read as length-prefixed labels up to the
\* first zero-length label (or the end of the bytes)
RECURSIVE ReadName(_, _)
ReadName(bytes, off) ==
    IF off >= Len(bytes) \/ At(bytes, off) = 0 THEN <<>>
    ELSE <<Slice(bytes, off + 1, off + 1 + At(bytes, off))>>
            \o ReadName(bytes, off + 1 + At(bytes, off))

\* C10: round trip of the question name.  For every domain whose labels have
\* at most 63 bytes and whose encoded name has at most 255, empty labels
\* included, build_dns_query returns a packet whose name, read at offset 12,
\* is the labels of the domain in order, and the question walk of
\* parse_dns_response over it does not raise and ends at the packet's length.
C10_QuestionRoundTrip ==
    (epc # "idle" /\ ~Oversized(domain)) =>
        /\ epc = "built"
        /\ ReadName(Val(packet), 12) = LabelBytes(domain)
        /\ dpc # "raised"
        /\ dpc \in {"return", "done"} => offset = Len(data)

\* The trailing-dot case of C10: the domain ends in '.', and the question
\* walk over its packet ended one byte before the packet's end.
C10_TrailingDotWalk ==
    /\ dpc = "done"
    /\ Len(domain) >= 2 /\ Last(domain) = 46 /\ domain[1] # 46
    /\ ~Oversized(domain)
    /\ offset = Len(data) - 1

----------------------------------------------------------------------------
(* monitor.py and the transport adapters.  What an attempt meets outside the
   program (the network, the host's resolver, the database file) is a record
   met: kind says what happened, and (ip, ttl, status) is the triple the
   decoder returned for a reply.  An adapter call ends in a record: raised
   (an exception left the call) or the tuple (ip, ttl, status, latency_ms) it
   returned; latency_ms is the measured span, 0 or more. *)

Returned(i, t, st, l) ==
    [raised |-> FALSE, ip |-> i, ttl |-> t, status |-> st, latency_ms |-> l]
Raised(e) ==
    [raised |-> TRUE, ip |-> None, ttl |-> None, status |-> e, latency_ms |-> 0]

Met(k, i, t, st) == [kind |-> k, ip |-> i, ttl |-> t, status |-> st]

\* resolver.py: resolve.  build_dns_query runs before the try block; inside
\* it a timeout, any other exception (one raised by parse_dns_response
\* included) and the decoded reply each end in a returned tuple.
resolve(name, met) ==
    IF encode_domain_raises(name) THEN Raised("struct.error")
    ELSE CASE met.kind = "timeout" -> Returned(None, None, "TIMEOUT", 2000)
           [] met.kind = "reply" -> Returned(met.ip, met.ttl, met.status, 20)
           [] OTHER -> Returned(None, None, "ERROR: " \o met.status, 1)

\* monitor.py: resolve_system
resolve_system(name, met) ==
    CASE met.kind = "reply" -> Returned(met.ip, None, "NOERROR", 5)
      [] met.kind = "gaierror" -> Returned(None, None, "GAIERRO: " \o met.status, 5)
      [] OTHER -> Returned(None, None, "EXCEPTION: " \o met.status, 5)

\* doh_resolver.py: resolve_google / resolve_cloudflare, whose whole body is
\* inside the try block
resolve_doh(name, met) ==
    CASE met.kind = "reply" -> Returned(met.ip, met.ttl, met.status, 40)
      [] OTHER -> Returned(None, None, "DOH_ERROR: " \o met.status, 40)

\* the names resolve_with_resolver dispatches on
RegistryNames == {"google", "cloudflare", "system", "google_doh", "cloudflare_doh"}

\* the adapter call of resolve_with_resolver for a name of the registry
Adapter(resolver_name, name, met) ==
    CASE resolver_name \in {"google", "cloudflare"} -> resolve(name, met)
      [] resolver_name = "system" -> resolve_system(name, met)
      [] OTHER -> resolve_doh(name, met)

\* what resolve_with_resolver returns for a name outside the registry
UnknownResolver == Returned(None, None, "UNKNOWN_RESOLVER", 0)

\* the dict entry resolve_and_log stores for a returned tuple, and the one
\* its except branch stores
ResultEntry(r) ==
    [ip |-> r.ip, ttl |-> r.ttl, status |-> r.status, latency_ms |-> r.latency_ms]
ExceptionEntry(e) ==
    [ip |-> None, ttl |-> None, status |-> "EXCEPTION: " \o e, latency_ms |-> 0]

\* an assignment that starts from an empty dict
SetItemFresh(dict, key, entry) ==
    [k \in {key} |-> entry]

\* results[resolver_name] = entry
SetItem(dict, key, entry) ==
    [k \in DOMAIN dict \cup {key} |-> IF k = key THEN entry ELSE dict[k]]

EmptyDict == [k \in {} |-> None]

\* the for loop of resolve_and_log
Targets == <<"google", "cloudflare", "system">>

\* the domains resolve_and_log is called with: "a.b", and a single label of
\* 256 characters, which struct.pack('B', ...) cannot take
MonDomains == {<<97, 46, 98>>, Repeat(97, 256)}

\* what a UDP exchange may meet: a reply decoded to an address, to a failure
\* RCODE with an address, to NOERROR without an address; a reply on which
\* parse_dns_response raises; a timeout; a socket error
UdpMets == {
    Met("reply", Some("A"), Some(300), "NOERROR"),
    Met("reply", Some("B"), Some(60), "SERVFAIL"),
    Met("reply", None, None, "NOERROR"),
    Met("decode_raises", None, None, "index out of range"),
    Met("timeout", None, None, ""),
    Met("socket_error", None, None, "Network is unreachable") }

\* what socket.gethostbyname may meet
SystemMets == {
    Met("reply", Some("A"), None, "NOERROR"),
    Met("gaierror", None, None, "Name or service not known"),
    Met("exception", None, None, "label too long") }

\* the exchange does not take place when build_dns_query raises
NoExchange == Met("none", None, None, "")

\* what the HTTPS request of a DoH adapter may meet: a JSON reply that
\* _parse_doh_response turns into an address, into NO_ANSWER or into
\* DOH_ERROR_<Status>; a failed request; a body that is not JSON
DohMets == {
    Met("reply", Some("A"), Some(300), "NOERROR"),
    Met("reply", None, None, "NO_ANSWER"),
    Met("reply", None, None, "DOH_ERROR_3"),
    Met("http_error", None, None, "timed out"),
    Met("json_error", None, None, "Expecting value") }

MetsOf(resolver_name, name) ==
    IF resolver_name = "system"
    THEN (IF encode_domain_raises(name)
          THEN {m \in SystemMets : m.kind = "exception"}
          ELSE SystemMets)
    ELSE IF resolver_name \in {"google_doh", "cloudflare_doh"}
    THEN DohMets
    ELSE (IF encode_domain_raises(name) THEN {NoExchange} ELSE UdpMets)

\* what the database may do to a call of log_dns_result: nothing, raise on
\* the INSERT, or raise in _check_ip_change after the INSERT was committed
DbFaults == {"none", "insert", "check"}

\* resolve_and_log(domain) is called; the database has room for the rows of
\* one more call
ResolveAndLog ==
    /\ mpc \in {"idle", "returned"}
    /\ Len(dns_logs) + Len(Targets) <= MaxLogs
    /\ \E d \in MonDomains : mdomain' = d
    /\ results' = EmptyDict
    /\ outcomes' = <<>>
    /\ idx' = 1
    /\ mpc' = "loop"
    /\ UNCHANGED <<dbVars, decVars, dohVars, encVars, conVars, swpVars, regVars>>

\* one pass of the for loop: resolve_with_resolver (the adapter, then
\* db.log_dns_result) inside the try block, and the entry of results
ResolveTarget ==
    /\ mpc = "loop"
    /\ idx <= Len(Targets)
    /\ \E met \in MetsOf(Targets[idx], mdomain), fault \in DbFaults :
        LET resolver_name == Targets[idx]
            r == Adapter(resolver_name, mdomain, met)
            checks == Truthy(r.ip) /\ r.status = "NOERROR"
        IN  /\ fault = "check" => (~r.raised /\ checks)
            /\ r.raised => fault = "none"
            /\ outcomes' = Append(outcomes, [met |-> met, fault |-> fault])
            /\ IF r.raised
               THEN /\ results' = SetItem(results, resolver_name, ExceptionEntry(r.status))
                    /\ UNCHANGED <<dns_logs, ip_alerts>>
               ELSE IF fault = "insert"
               THEN /\ results' = SetItem(results, resolver_name,
                                          ExceptionEntry("database is locked"))
                    /\ UNCHANGED <<dns_logs, ip_alerts>>
               ELSE IF fault = "check"
               THEN /\ results' = SetItem(results, resolver_name,
                                          ExceptionEntry("database is locked"))
                    /\ dns_logs' = InsertLog(dns_logs, mdomain, resolver_name,
                                             r.ip, r.ttl, r.status, r.latency_ms, now)
                    /\ UNCHANGED ip_alerts
               ELSE /\ log_dns_result(mdomain, resolver_name, r.ip, r.ttl, r.status,
                                      r.latency_ms)
                    /\ results' = SetItem(results, resolver_name, ResultEntry(r))
    /\ idx' = idx + 1
    /\ UNCHANGED <<now, mpc, mdomain, decVars, dohVars, encVars, conVars, swpVars, regVars>>

\* return results
ReturnResults ==
    /\ mpc = "loop"
    /\ idx > Len(Targets)
    /\ mpc' = "returned"
    /\ UNCHANGED <<results, outcomes, idx, mdomain,
                   dbVars, decVars, dohVars, encVars, conVars, swpVars, regVars>>

\* the two for loops of compare_doh_resolvers, and the key each stores its
\* entry under
CompareTargets == <<"google", "cloudflare", "google_doh", "cloudflare_doh">>

CompareKey(resolver_name) ==
    IF resolver_name \in {"google", "cloudflare"}
    THEN resolver_name \o "_udp" ELSE resolver_name

\* compare_doh_resolvers(domain) is called, on a fresh database
CompareDohResolvers ==
    /\ mpc = "idle"
    /\ \E d \in MonDomains : mdomain' = d
    /\ results' = EmptyDict
    /\ outcomes' = <<>>
    /\ idx' = 1
    /\ mpc' = "compare"
    /\ UNCHANGED <<dbVars, decVars, dohVars, encVars, conVars, swpVars, regVars>>

\* one pass of either for loop of compare_doh_resolvers: there is no try
\* block, so an exception of resolve_with_resolver leaves the function
CompareTarget ==
    /\ mpc = "compare"
    /\ idx <= Len(CompareTargets)
    /\ \E met \in MetsOf(CompareTargets[idx], mdomain), fault \in DbFaults :
        LET resolver_name == CompareTargets[idx]
            r == Adapter(resolver_name, mdomain, met)
            checks == Truthy(r.ip) /\ r.status = "NOERROR"
        IN  /\ fault = "check" => (~r.raised /\ checks)
            /\ r.raised => fault = "none"
            /\ outcomes' = Append(outcomes, [met |-> met, fault |-> fault])
            /\ IF r.raised \/ fault = "insert"
               THEN /\ mpc' = "compare_raised"
                    /\ UNCHANGED <<results, dns_logs, ip_alerts>>
               ELSE IF fault = "check"
               THEN /\ mpc' = "compare_raised"
                    /\ dns_logs' = InsertLog(dns_logs, mdomain, resolver_name,
                                             r.ip, r.ttl, r.status, r.latency_ms, now)
                    /\ UNCHANGED <<results, ip_alerts>>
               ELSE /\ log_dns_result(mdomain, resolver_name, r.ip, r.ttl, r.status,
                                      r.latency_ms)
                    /\ results' = SetItem(results, CompareKey(resolver_name),
                                          ResultEntry(r))
                    /\ mpc' = mpc
    /\ idx' = idx + 1
    /\ UNCHANGED <<now, mdomain, decVars, dohVars, encVars, conVars, swpVars, regVars>>

\* return results of compare_doh_resolvers
CompareReturn ==
    /\ mpc = "compare"
    /\ idx > Len(CompareTargets)
    /\ mpc' = "compare_returned"
    /\ UNCHANGED <<results, outcomes, idx, mdomain,
                   dbVars, decVars, dohVars, encVars, conVars, swpVars, regVars>>

----------------------------------------------------------------------------
(* SpecMonitor: resolve_and_log and compare_doh_resolvers against a fresh
   database *)

InitMonitor ==
    /\ DbEmpty /\ DecIdle /\ DohIdle /\ EncIdle /\ ConIdle /\ SwpIdle /\ RegIdle
    /\ results = EmptyDict /\ outcomes = <<>> /\ idx = 0 /\ mpc = "idle"
    /\ mdomain = <<>>

NextMonitor ==
    \/ ResolveAndLog
    \/ ResolveTarget
    \/ ReturnResults
    \/ CompareDohResolvers
    \/ CompareTarget
    \/ CompareReturn
    \/ Tick

SpecMonitor == InitMonitor /\ [][NextMonitor]_vars

----------------------------------------------------------------------------
(* Properties of SpecMonitor *)

\* the outcome of the i-th target of the running call: what it met and what
\* the database did
TargetRaised(i) == Adapter(Targets[i], mdomain, outcomes[i].met).raised

TargetSucceeds(i) ==
    /\ ~TargetRaised(i)
    /\ outcomes[i].fault = "none"
    /\ outcomes[i].met.kind = "reply"
    /\ outcomes[i].met.status = "NOERROR"
    /\ outcomes[i].met.ip # None

\* a timeout, a transport error, or an exception raised by the adapter or by
\* the database
TargetFails(i) ==
    \/ TargetRaised(i)
    \/ outcomes[i].fault # "none"
    \/ outcomes[i].met.kind # "reply"

TargetSet == {Targets[i] : i \in 1..Len(Targets)}

\* C5: Partial failure isolation.  For every domain and every combination of
\* per-target outcomes (success, timeout, transport error, raised exception
\* from the adapter or from the database), every target the loop has passed
\* has exactly one entry in results and the returned mapping has exactly the
\* targets google, cloudflare and system as keys; a failed target's entry
\* has no address and a status other than NOERROR; a succeeding target's
\* entry has status NOERROR, the address and the TTL its own exchange
\* produced, whatever happened to the other targets.
C5_PartialFailureIsolation ==
    /\ mpc \in {"loop", "returned"} =>
          DOMAIN results = {Targets[i] : i \in 1..Len(outcomes)}
    /\ mpc = "returned" => DOMAIN results = TargetSet
    /\ mpc \in {"loop", "returned"} =>
          \A i \in 1..Len(outcomes) :
              LET entry == results[Targets[i]]
              IN  /\ TargetFails(i) =>
                        /\ entry.ip = None
                        /\ entry.status # "NOERROR"
                  /\ TargetSucceeds(i) =>
                        /\ entry.status = "NOERROR"
                        /\ entry.ip = outcomes[i].met.ip
                        /\ entry.ttl = (IF Targets[i] = "system" THEN None
                                        ELSE outcomes[i].met.ttl)

\* witness of C5: the call returned; google succeeded, cloudflare timed out
\* and the database raised while logging the system resolver's success; all
\* three entries are there, google's with its address
C5_SuccessBesideFailures ==
    /\ mpc = "returned"
    /\ TargetSucceeds(1)
    /\ outcomes[2].met.kind = "timeout"
    /\ outcomes[3].met.kind = "reply" /\ outcomes[3].fault = "insert"
    /\ results["google"].status = "NOERROR" /\ results["google"].ip = Some("A")
    /\ results["cloudflare"].status = "TIMEOUT" /\ results["cloudflare"].ip = None
    /\ results["system"].ip = None

\* the targets of the function that is running
CurTargets ==
    IF mpc \in {"compare", "compare_returned", "compare_raised"}
    THEN CompareTargets ELSE Targets

\* the adapter call of the i-th pass raised to resolve_with_resolver
AdapterRaised(i) == Adapter(CurTargets[i], mdomain, outcomes[i].met).raised

\* C11: Fault propagation policy.  Every transport adapter call (resolve
\* over UDP, resolve_system, the two DoH adapters) ends by returning a tuple
\* (ip, ttl, status, latency), for every domain and every fault, a fault
\* while building the query included; no adapter raises to its caller, so
\* compare_doh_resolvers is never left by an exception of a transport call.
C11_AdaptersNeverRaise ==
    \A i \in 1..Len(outcomes) : ~AdapterRaised(i)

\* witness of C11: compare_doh_resolvers was left by the exception that
\* resolve raised while building the query of its first target, the
\* database being in order
C11_CompareAbortedByAdapter ==
    /\ mpc = "compare_raised"
    /\ Len(outcomes) = 1
    /\ AdapterRaised(1)
    /\ outcomes[1].fault = "none"
    /\ results = EmptyDict

----------------------------------------------------------------------------
(* SpecConcurrent: callers of log_dns_result that share one database file.
   Every method of DNSDatabase opens its own connection and commits its own
   statement, so a call is three steps, each atomic in SQLite: the INSERT
   into dns_logs, the SELECT of get_last_ip, the INSERT into ip_alerts. *)

ArgsOf(d, r, x) ==
    [domain |-> d, resolver |-> r, ip |-> x[1], ttl |-> x[2],
     status |-> x[3], latency_ms |-> x[4]]

\* log_dns_result is called and its INSERT is committed; the call returns
\* here unless `ip and status == 'NOERROR'`
ConcInsert ==
    /\ Len(dns_logs) < MaxLogs
    /\ \E p \in Procs, d \in DbDomains, r \in DbResolvers, x \in DbResults :
        /\ cpc[p] = "idle"
        /\ dns_logs' = InsertLog(dns_logs, d, r, x[1], x[2], x[3], x[4], now)
        /\ cargs' = [cargs EXCEPT ![p] = ArgsOf(d, r, x)]
        /\ cpc' = [cpc EXCEPT ![p] =
                      IF Truthy(x[1]) /\ x[3] = "NOERROR" THEN "lookup" ELSE "idle"]
    /\ UNCHANGED <<ip_alerts, now, clast, decVars, dohVars, encVars, monVars, swpVars, regVars>>

\* _check_ip_change: last_ip = self.get_last_ip(domain, resolver)
ConcGetLastIp ==
    /\ \E p \in Procs :
        /\ cpc[p] = "lookup"
        /\ \E last \in get_last_ip(dns_logs, cargs[p].domain, cargs[p].resolver) :
               clast' = [clast EXCEPT ![p] = last]
        /\ cpc' = [cpc EXCEPT ![p] = "compare"]
    /\ UNCHANGED <<dbVars, cargs, decVars, dohVars, encVars, monVars, swpVars, regVars>>

\* _check_ip_change: the comparison and log_ip_alert; the call returns
ConcCheckIpChange ==
    /\ \E p \in Procs :
        /\ cpc[p] = "compare"
        /\ ip_alerts' = check_ip_change(ip_alerts, cargs[p].domain, cargs[p].resolver,
                                        cargs[p].ip, clast[p], now)
        /\ cpc' = [cpc EXCEPT ![p] = "idle"]
    /\ UNCHANGED <<dns_logs, now, cargs, clast, decVars, dohVars, encVars, monVars, swpVars, regVars>>

InitConcurrent ==
    DbEmpty /\ DecIdle /\ DohIdle /\ EncIdle /\ MonIdle /\ ConIdle /\ SwpIdle /\ RegIdle

NextConcurrent ==
    \/ ConcInsert
    \/ ConcGetLastIp
    \/ ConcCheckIpChange
    \/ Tick

SpecConcurrent == InitConcurrent /\ [][NextConcurrent]_vars

----------------------------------------------------------------------------
(* Properties of SpecConcurrent *)

\* the address changes between consecutive successful results of a history
RECURSIVE Changes(_)
Changes(succ) ==
    IF Len(succ) < 2 THEN <<>>
    ELSE (IF succ[1].ip # succ[2].ip
          THEN <<[old_ip |-> succ[1].ip, new_ip |-> succ[2].ip]>>
          ELSE <<>>) \o Changes(Tail(succ))

AlertPairs(alerts) ==
    [i \in 1..Len(alerts) |->
        [old_ip |-> alerts[i].old_ip, new_ip |-> alerts[i].new_ip]]

\* caller p is between the INSERT and the return of a call for (d, r)
InCall(p, d, r) ==
    cpc[p] # "idle" /\ cargs[p].domain = d /\ cargs[p].resolver = r

Quiescent == \A p \in Procs : cpc[p] = "idle"

\* C12: serialized change detection per key.  Two callers are never both
\* between the INSERT and the return of log_dns_result for the same
\* (domain, resolver); and when no call is running, the alerts of every key
\* are exactly the address changes between consecutive successful results
\* of the key, in the order the results were committed to dns_logs.
C12_SerializedPerKey ==
    /\ \A p, q \in Procs, d \in DbDomains, r \in DbResolvers :
           (p # q /\ InCall(p, d, r)) => ~InCall(q, d, r)
    /\ Quiescent =>
           \A d \in DbDomains, r \in DbResolvers :
               AlertPairs(RowsOf(ip_alerts, d, r))
                   = Changes(SuccessesOf(dns_logs, d, r))

\* witness of C12: a race no sequential run produces.  A was committed in
\* one second and B in a later one, by two callers; the only alert of the
\* key says the address changed from B to A, written by the caller of A,
\* whose lookup ran after the other caller's INSERT.
C12_ReversedAlert ==
    \E d \in DbDomains, r \in DbResolvers :
        LET rows == RowsOf(dns_logs, d, r)
            al == RowsOf(ip_alerts, d, r)
        IN  /\ Quiescent
            /\ Len(rows) = 2
            /\ IsSuccess(rows[1]) /\ IsSuccess(rows[2])
            /\ rows[1].timestamp < rows[2].timestamp
            /\ Len(al) = 1
            /\ al[1].old_ip = rows[2].ip /\ al[1].new_ip = rows[1].ip
            /\ rows[1].ip # rows[2].ip

----------------------------------------------------------------------------
(* SpecSweep: monitor_domains.  resolve_and_log is a call that makes its
   resolver attempts one after another, each taking some time, and returns;
   an exception may leave it at any point.  trace keeps the finished passes
   of the for loop of the running sweep, after the last pass of the sweep
   before it. *)

\* bound of the monitoring model
MaxSweeps == 2

SweepLists == {<<>>, <<"d1">>, <<"d1", "d2">>}
SweepIntervals == {0, 2}
\* seconds a resolver attempt may take, and seconds time.sleep may overrun
AttemptDurations == {0, 1}
SleepOverruns == {0, 1}

\* a for loop whose try statement has no except branch
AfterDomainUncaught(outcome) ==
    IF outcome = "raised" THEN "raised" ELSE "for"

\* where the for loop goes after a pass: the try statement has an
\* `except Exception` branch, so both outcomes go on with the loop
AfterDomain(outcome) == "for"

Pass(outcome) ==
    [sweep |-> sweep, index |-> di, domain |-> domains[di],
     start |-> rstart, end |-> sclock, outcome |-> outcome]

\* monitor_domains(domains, interval) is called
MonitorDomains ==
    /\ spc = "idle"
    /\ \E ds \in SweepLists, iv \in SweepIntervals :
           domains' = ds /\ interval' = iv
    /\ spc' = "for" /\ sweep' = 1 /\ di' = 1
    /\ UNCHANGED <<att, sclock, rstart, trace,
                   dbVars, decVars, dohVars, encVars, monVars, conVars, regVars>>

\* the for loop takes the next domain and calls resolve_and_log
SweepCall ==
    /\ spc = "for" /\ di <= Len(domains)
    /\ spc' = "resolving" /\ att' = 0 /\ rstart' = sclock
    /\ UNCHANGED <<domains, interval, sweep, di, sclock, trace,
                   dbVars, decVars, dohVars, encVars, monVars, conVars, regVars>>

\* resolve_and_log finishes the attempt of its next target
SweepAttempt ==
    /\ spc = "resolving" /\ att < Len(Targets)
    /\ att' = att + 1
    /\ \E dur \in AttemptDurations : sclock' = sclock + dur
    /\ UNCHANGED <<domains, interval, spc, sweep, di, rstart, trace,
                   dbVars, decVars, dohVars, encVars, monVars, conVars, regVars>>

\* resolve_and_log returns results; the for loop goes on
SweepReturn ==
    /\ spc = "resolving" /\ att = Len(Targets)
    /\ trace' = Append(trace, Pass("returned"))
    /\ spc' = AfterDomain("returned")
    /\ di' = di + 1
    /\ UNCHANGED <<domains, interval, sweep, att, sclock, rstart,
                   dbVars, decVars, dohVars, encVars, monVars, conVars, regVars>>

\* an exception leaves resolve_and_log and is caught by monitor_domains
SweepExcept ==
    /\ spc = "resolving"
    /\ trace' = Append(trace, Pass("raised"))
    /\ spc' = AfterDomain("raised")
    /\ di' = di + 1
    /\ UNCHANGED <<domains, interval, sweep, att, sclock, rstart,
                   dbVars, decVars, dohVars, encVars, monVars, conVars, regVars>>

\* the for loop is exhausted: time.sleep(interval) is called
SweepSleep ==
    /\ spc = "for" /\ di > Len(domains)
    /\ spc' = "sleeping" /\ rstart' = sclock
    /\ UNCHANGED <<domains, interval, sweep, di, att, sclock, trace,
                   dbVars, decVars, dohVars, encVars, monVars, conVars, regVars>>

\* time.sleep returns, interval seconds or more after it was called, and
\* the while loop starts its next pass
SweepWake ==
    /\ spc = "sleeping"
    /\ sweep < MaxSweeps
    /\ \E late \in SleepOverruns : sclock' = rstart + interval + late
    /\ sweep' = sweep + 1 /\ di' = 1 /\ spc' = "for"
    /\ trace' = IF trace = <<>> THEN <<>> ELSE <<Last(trace)>>
    /\ UNCHANGED <<domains, interval, att, rstart,
                   dbVars, decVars, dohVars, encVars, monVars, conVars, regVars>>

InitSweep ==
    DbEmpty /\ DecIdle /\ DohIdle /\ EncIdle /\ MonIdle /\ ConIdle /\ SwpIdle /\ RegIdle

NextSweep ==
    \/ MonitorDomains
    \/ SweepCall
    \/ SweepAttempt
    \/ SweepReturn
    \/ SweepExcept
    \/ SweepSleep
    \/ SweepWake

SpecSweep == InitSweep /\ [][NextSweep]_vars

----------------------------------------------------------------------------
(* Properties of SpecSweep *)

\* the finished passes of the running sweep
CurrentPasses == SelectSeq(trace, LAMBDA e : e.sweep = sweep)

\* C13: non-overlapping monitoring sweeps.  Passes never overlap in time and
\* follow one another in list order; within a sweep every domain of the list
\* is resolved exactly once, and a pass that returned made all its resolver
\* attempts before the next one starts; the first pass of sweep n+1 starts
\* no earlier than interval seconds after the last pass of sweep n ended,
\* however long sweep n took; an exception while resolving a domain leaves
\* the loop running.
C13_NonOverlappingSweeps ==
    /\ spc # "raised"
    /\ \A k \in 1..Len(trace) :
           /\ trace[k].start <= trace[k].end
           /\ trace[k].domain = domains[trace[k].index]
    /\ \A k \in 1..(Len(trace) - 1) :
           LET a == trace[k]
               b == trace[k + 1]
           IN  /\ a.end <= b.start
               /\ \/ b.sweep = a.sweep /\ b.index = a.index + 1
                  \/ /\ b.sweep = a.sweep + 1
                     /\ a.index = Len(domains) /\ b.index = 1
                     /\ b.start >= a.end + interval
    /\ spc # "idle" =>
           /\ Len(CurrentPasses) = di - 1
           /\ \A k \in 1..Len(CurrentPasses) : CurrentPasses[k].index = k
    /\ spc = "sleeping" => Len(CurrentPasses) = Len(domains)
    /\ (spc = "resolving" /\ trace # <<>>) => Last(trace).end <= rstart
    /\ (spc \in {"for", "sleeping"} /\ trace # <<>>
            /\ Last(trace).outcome = "returned") => att = Len(Targets)

\* witness of C13: the first sweep over two domains took longer than the
\* interval and ended with an exception; the second sweep started interval
\* seconds or more after it, its first pass raised as well, and the second
\* domain is being resolved
C13_LongSweepThenNext ==
    /\ Len(domains) = 2 /\ interval = 2
    /\ sweep = 2 /\ spc = "resolving" /\ di = 2
    /\ Len(trace) = 2
    /\ trace[1].sweep = 1 /\ trace[1].index = 2
    /\ trace[1].outcome = "raised" /\ trace[1].end > interval
    /\ trace[2].sweep = 2 /\ trace[2].outcome = "raised"
    /\ trace[2].start >= trace[1].end + interval

----------------------------------------------------------------------------
(* SpecPointer: parse_dns_response over responses whose answer names are
   compression pointers with every kind of target *)

\* 14-bit pointer targets: the header, the question name (the first answer
\* itself when there is no question), the first answer after one question,
\* and the largest target, outside every message
PointerTargets == {0, 12, 19, 16383}

PointerName(t) == <<192 + (t \div 256), t % 256>>

PointerA(t) ==
    [name |-> PointerName(t), type |-> 1, class |-> 1, ttl |-> 60,
     rdata |-> <<1, 2, 3, 4>>]

\* entries that may stand before the A record: a CNAME behind a pointer, and
\* a CNAME behind a literal name
PointerCname(t) ==
    [name |-> PointerName(t), type |-> 5, class |-> 1, ttl |-> 30,
     rdata |-> <<192, 12>>]
LiteralCname ==
    [name |-> <<1, 97, 0>>, type |-> 5, class |-> 1, ttl |-> 30,
     rdata |-> <<192, 12>>]

PointerAnswerLists ==
    {<<PointerA(t)>> : t \in PointerTargets}
    \cup {<<PointerCname(t), PointerA(u)>> : t, u \in PointerTargets}
    \cup {<<LiteralCname, PointerA(u)>> : u \in PointerTargets}

\* the responses of the family differ in their pointer targets, flags and
\* question count only; they all carry the A record 1.2.3.4 with TTL 60
PointerMessages ==
    {WireMessage(f, qd, as) :
        f \in WireFlags, qd \in 0..MaxQuestions, as \in PointerAnswerLists}

PointerInputs == UNION {{SubSeq(m, 1, n) : n \in 0..Len(m)} : m \in PointerMessages}

InitPointer ==
    /\ DbEmpty /\ EncIdle /\ MonIdle /\ ConIdle /\ SwpIdle /\ RegIdle
    /\ data \in PointerInputs
    /\ offset = 0 /\ qleft = 0 /\ aleft = 0 /\ dpc = "start"
    /\ ip = None /\ ttl = None /\ status = "" /\ oob = FALSE
    /\ DohIdle

NextPointer ==
    \/ ParseHeader
    \/ SkipQuestion
    \/ ParseAnswerName
    \/ WalkAnswerLabel
    \/ ParseAnswerFixed
    \/ ParseReturn

SpecPointer == InitPointer /\ [][NextPointer]_vars

----------------------------------------------------------------------------
(* Properties of SpecPointer *)

\* the byte at the cursor has its top two bits set
AtPointerByte == offset < Len(data) /\ At(data, offset) >= 192

\* every complete response of the family decodes to the address 1.2.3.4
\* and the TTL 60
TargetIndependent ==
    (dpc = "done" /\ data \in PointerMessages) =>
        (ip = Some("1.2.3.4") /\ ttl = Some(60))

\* C14: compression-pointer advance.  When the name of an answer entry
\* starts with a byte whose top two bits are 11, the step that reads the
\* name moves the cursor by exactly 2 bytes and goes on to the 10 fixed
\* bytes at the new cursor, whatever the 14-bit target is (the header, the
\* entry itself, a place outside the buffer); and the decoded address and
\* TTL of responses that differ in their pointer targets only are the same.
C14_PointerAdvance ==
    /\ [][ (dpc = "answer_name" /\ AtPointerByte) =>
               (offset' = offset + 2 /\ dpc' = "answer_fixed") ]_vars
    /\ []TargetIndependent

\* witness of C14: the decoder stands on the 10 fixed bytes of the A record
\* right after a name that is a pointer to the largest target, 2 bytes after
\* the end of the question
C14_AfterOutsidePointer ==
    /\ dpc = "answer_fixed"
    /\ data \in PointerMessages
    /\ offset = 21
    /\ At(data, offset - 2) = 255 /\ At(data, offset - 1) = 255
    /\ Rd16(data, offset) = A_RECORD

----------------------------------------------------------------------------
(* SpecRegistry: resolve_with_resolver called directly, as cli.py and the
   dashboard do, with names inside and outside the registry *)

\* the names a caller passes
CallerNames == RegistryNames \cup {"quad9", ""}

\* resolve_with_resolver(domain, resolver_name) is called; the database has
\* room for one more row
CallResolveWithResolver ==
    /\ rpc # "called"
    /\ Len(dns_logs) < MaxLogs
    /\ \E n \in CallerNames, d \in MonDomains : rname' = n /\ rdomain' = d
    /\ rpc' = "called"
    /\ rout' = None
    /\ radapters' = 0
    /\ UNCHANGED <<dbVars, decVars, dohVars, encVars, monVars, conVars, swpVars>>

\* the body of resolve_with_resolver: the dispatch on the name, the adapter
\* call, db.log_dns_result, the return
RunResolveWithResolver ==
    /\ rpc = "called"
    /\ IF rname \notin RegistryNames
       THEN /\ rout' = Some(UnknownResolver)
            /\ rpc' = "returned"
            /\ radapters' = 0
            /\ UNCHANGED <<dns_logs, ip_alerts>>
       ELSE \E met \in MetsOf(rname, rdomain), fault \in DbFaults :
            LET r == Adapter(rname, rdomain, met)
                checks == Truthy(r.ip) /\ r.status = "NOERROR"
            IN  /\ fault = "check" => (~r.raised /\ checks)
                /\ r.raised => fault = "none"
                /\ radapters' = 1
                /\ IF r.raised
                   THEN /\ rout' = Some(r)
                        /\ rpc' = "raised"
                        /\ UNCHANGED <<dns_logs, ip_alerts>>
                   ELSE IF fault = "insert"
                   THEN /\ rout' = Some(Raised("database is locked"))
                        /\ rpc' = "raised"
                        /\ UNCHANGED <<dns_logs, ip_alerts>>
                   ELSE IF fault = "check"
                   THEN /\ rout' = Some(Raised("database is locked"))
                        /\ rpc' = "raised"
                        /\ dns_logs' = InsertLog(dns_logs, rdomain, rname, r.ip, r.ttl,
                                                 r.status, r.latency_ms, now)
                        /\ UNCHANGED ip_alerts
                   ELSE /\ log_dns_result(rdomain, rname, r.ip, r.ttl, r.status,
                                          r.latency_ms)
                        /\ rout' = Some(r)
                        /\ rpc' = "returned"
    /\ UNCHANGED <<now, rname, rdomain, decVars, dohVars, encVars, monVars, conVars, swpVars>>

InitRegistry ==
    /\ DbEmpty /\ DecIdle /\ DohIdle /\ EncIdle /\ MonIdle /\ ConIdle
    /\ SwpIdle /\ RegIdle

NextRegistry ==
    \/ CallResolveWithResolver
    \/ RunResolveWithResolver
    \/ Tick

SpecRegistry == InitRegistry /\ [][NextRegistry]_vars

----------------------------------------------------------------------------
(* Properties of SpecRegistry *)

\* C15: registry miss.  A call of resolve_with_resolver with a name outside
\* the registry returns (None, None, UNKNOWN_RESOLVER, 0.0), invokes no
\* adapter and leaves dns_logs and ip_alerts as they were; a call with a
\* name of the registry invokes exactly one adapter and appends exactly one
\* row to dns_logs, whether the attempt succeeded or failed.
C15_RegistryMiss ==
    [][ (rpc = "called" /\ rpc' # "called") =>
            IF rname \in RegistryNames
            THEN /\ radapters' = 1
                 /\ Len(dns_logs') = Len(dns_logs) + 1
            ELSE /\ rpc' = "returned"
                 /\ rout' = Some(UnknownResolver)
                 /\ radapters' = 0
                 /\ dns_logs' = dns_logs /\ ip_alerts' = ip_alerts ]_vars

\* witness of C15: a call with the name google was left by the exception of
\* the adapter and no row was written
C15_NoRowForRaisedAttempt ==
    /\ rpc = "raised"
    /\ rname = "google"
    /\ rout = Some(Raised("struct.error"))
    /\ radapters = 1
    /\ dns_logs = <<>>

----------------------------------------------------------------------------
(* SpecTerminate: parse_dns_response over headers with small and with the
   largest counts followed by short bodies, and over the well-formed
   responses; the function is a running call, so its next statement is
   always taken *)

\* bound of the termination model: bytes after the header
MaxBody == 3

\* qdcount and ancount values, and the bytes of a body: the end of a name, a
\* label of 1 byte, the offset of the first question, a label longer than
\* the body, a pointer byte
TermCounts == {0, 1, 2, 65535}
TermBytes == {0, 1, 12, 64, 192}

TermInputs ==
    {WireHeader(4660, 33152, qd, an) \o body :
        qd \in TermCounts, an \in TermCounts, body \in SeqsUpTo(TermBytes, MaxBody)}
    \cup WireMessages

InitTerminate ==
    /\ DbEmpty /\ EncIdle /\ MonIdle /\ ConIdle /\ SwpIdle /\ RegIdle
    /\ data \in TermInputs
    /\ offset = 0 /\ qleft = 0 /\ aleft = 0 /\ dpc = "start"
    /\ ip = None /\ ttl = None /\ status = "" /\ oob = FALSE
    /\ DohIdle

NextTerminate ==
    \/ ParseHeader
    \/ SkipQuestion
    \/ ParseAnswerName
    \/ WalkAnswerLabel
    \/ ParseAnswerFixed
    \/ ParseReturn

SpecTerminate ==
    InitTerminate /\ [][NextTerminate]_vars /\ WF_vars(NextTerminate)

----------------------------------------------------------------------------
(* Properties of SpecTerminate *)

\* parse_dns_response returned or was left by an exception
Finished == dpc \in {"done", "raised"}

\* C16: decode terminates.  Every call of parse_dns_response finishes, with
\* a result or a failure; the cursor never moves back, and every iteration
\* of the label-walking loops of the question and answer sections that
\* goes on moves it forward, whatever the label lengths, pointers and
\* counts (up to 65535) of the input are.
C16_DecodeTerminates ==
    /\ <>Finished
    /\ [][ /\ offset' >= offset
           /\ (dpc \in {"question", "answer_labels"} /\ dpc' # "raised")
                  => offset' > offset ]_vars

\* witness of C16: a header announcing 65535 questions and 65535 answers
\* over a body of three bytes; the walk went past the end of the buffer
\* and the call ended there
C16_HugeCountsEnded ==
    /\ Finished
    /\ Len(data) = 12 + MaxBody
    /\ Rd16(data, 4) = 65535 /\ Rd16(data, 6) = 65535
    /\ offset > Len(data)
    /\ qleft > 65000

----------------------------------------------------------------------------
(* SpecKeys: log_dns_result calls for several (domain, resolver) pairs that
   share a domain or a resolver *)

KeyPairs == {<<"d1", "google">>, <<"d1", "cloudflare">>, <<"d2", "google">>}

KeyResults == {
    <<Some("A"), Some(300), "NOERROR", 50>>,
    <<Some("B"), Some(300), "NOERROR", 45>>,
    <<Some("B"), Some(60), "SERVFAIL", 30>>,
    <<Some(""), Some(60), "NOERROR", 30>>,
    <<None, None, "TIMEOUT", 2000>> }

LogDnsResultForKey ==
    /\ Len(dns_logs) < MaxLogs
    /\ \E k \in KeyPairs, x \in KeyResults :
           log_dns_result(k[1], k[2], x[1], x[2], x[3], x[4])
    /\ UNCHANGED <<now, decVars, dohVars, encVars, monVars, conVars, swpVars, regVars>>

InitKeys ==
    /\ DbEmpty /\ DecIdle /\ DohIdle /\ EncIdle /\ MonIdle /\ ConIdle
    /\ SwpIdle /\ RegIdle

NextKeys == LogDnsResultForKey \/ Tick

SpecKeys == InitKeys /\ [][NextKeys]_vars

----------------------------------------------------------------------------
(* Properties of SpecKeys *)

IsPrefix(old, new) ==
    Len(old) <= Len(new) /\ SubSeq(new, 1, Len(old)) = old

\* C17: per-key isolation and append-only logs.  No step deletes or
\* rewrites a row of dns_logs or ip_alerts; a call of log_dns_result for
\* (d, r) leaves what get_last_ip returns for every other pair as it was,
\* and every alert it adds is for (d, r), with a non-empty old_ip, a
\* non-empty new_ip different from old_ip, and reason IP_CHANGED.
C17_KeyIsolation ==
    [][ /\ IsPrefix(dns_logs, dns_logs')
        /\ IsPrefix(ip_alerts, ip_alerts')
        /\ IsLogCall =>
             LET row == Last(dns_logs')
             IN  /\ \A k \in KeyPairs :
                        k # <<row.domain, row.resolver>> =>
                            get_last_ip(dns_logs', k[1], k[2])
                                = get_last_ip(dns_logs, k[1], k[2])
                 /\ \A i \in (Len(ip_alerts) + 1)..Len(ip_alerts') :
                        /\ ip_alerts'[i].domain = row.domain
                        /\ ip_alerts'[i].resolver = row.resolver
                        /\ Truthy(ip_alerts'[i].old_ip)
                        /\ Truthy(ip_alerts'[i].new_ip)
                        /\ ip_alerts'[i].old_ip # ip_alerts'[i].new_ip
                        /\ ip_alerts'[i].reason = "IP_CHANGED" ]_vars

\* witness of C17: three rows, the second for another resolver of the same
\* domain with another address; the only alert is for the pair of the
\* third call, and the other pair's last address is still its own
C17_AlertBesideOtherKey ==
    /\ Len(dns_logs) = 3 /\ Len(ip_alerts) = 1
    /\ \A i \in {1, 3} : dns_logs[i].domain = "d1" /\ dns_logs[i].resolver = "google"
    /\ dns_logs[2].domain = "d1" /\ dns_logs[2].resolver = "cloudflare"
    /\ IsSuccess(dns_logs[1]) /\ IsSuccess(dns_logs[2]) /\ IsSuccess(dns_logs[3])
    /\ dns_logs[1].ip = dns_logs[2].ip /\ dns_logs[3].ip # dns_logs[1].ip
    /\ ip_alerts[1].resolver = "google"
    /\ ip_alerts[1].new_ip = dns_logs[3].ip
    /\ get_last_ip(dns_logs, "d1", "cloudflare") = {dns_logs[2].ip}

====
